---- MODULE Spec2Model ----
(***************************************************************************)
(* A model of fitbit2oscar's extraction pipeline                           *)
(* (src/src/fitbit2oscar/fitbit_extractor.py) and of the handler registry  *)
(* (src/src/fitbit2oscar/handlers.py).                                     *)
(*                                                                         *)
(* A Python value is a record of one field, named after its type: an int  *)
(* is [int |-> n], a dict [dict |-> f].  A Python string is the sequence   *)
(* of its characters, so that str.split, the                               *)
(* iteration over a string and the substring test are computed and not     *)
(* assumed.  A call's outcome is [exc |-> "none" or the exception's name,  *)
(* val |-> the value returned].                                            *)
(***************************************************************************)
EXTENDS Integers, Sequences, FiniteSets, TLC

\* ------------------------------------------------------------ Python values

IntV(n) == [int |-> n]
StrV(s) == [str |-> s]
ListV(q) == [list |-> q]
DictV(f) == [dict |-> f]
DictKeys(S) == [dict_keys |-> S]
NoneValue == [none |-> 0]

\* a value's type and its payload
T(x) == CHOOSE k \in DOMAIN x : TRUE
V(x) == x[T(x)]

Ok(x) == [exc |-> "none", val |-> x]
Raise(e) == [exc |-> e, val |-> NoneValue]

VARIABLES
    \* get_nested_value, one call
    r_data, r_key_path, r_result, r_applied, rpc,
    \* the run's configuration and date window
    config, start_date, end_date,
    \* collect_sleep_data: the files, the list read from the current file,
    \* how many records the reader has handed over, the position in the list
    sleep_files, file_idx, sleep_data, pulled, pos, spc,
    \* what the last step of the sleep stream did, and how many it emitted
    sleep_last, sleep_emitted,
    \* extract_vitals_data: its arguments, its position in the input, its
    \* counters, the pairs it has yielded, what it has logged
    vitals_data, vitals_key, vitals_type, min_valid,
    vitals_pos, extracted_count, valid_count, yielded, log, vpc,
    \* collect_vitals_data: the files, the items its own generator has
    \* yielded, and the generator expression: its file and its items
    vitals_files, outer_items, opc, vf_idx, inner_items, ipc,
    \* whether the instants of convert_timestamp have a .datetime attribute
    instant_has_datetime,
    \* DataHandler._registry, and the class definitions made so far
    registry, defs

rvars == <<r_data, r_key_path, r_result, r_applied, rpc>>
cvars == <<config, start_date, end_date>>
svars == <<sleep_files, file_idx, sleep_data, pulled, pos, spc,
           sleep_last, sleep_emitted>>
avars == <<vitals_key, vitals_type, min_valid>>
evars == <<vitals_data, vitals_pos, extracted_count, valid_count, yielded,
           log, vpc>>
gvars == <<vitals_files, outer_items, opc, vf_idx, inner_items, ipc,
           instant_has_datetime>>
hvars == <<registry, defs>>

nonResolve == <<cvars, svars, avars, evars, gvars, hvars>>
nonSleep == <<rvars, avars, evars, gvars, hvars>>
nonVitals == <<rvars, svars, hvars>>
nonRegistry == <<rvars, cvars, svars, avars, evars, gvars>>

\* the strings the configuration and the records of the model use
s_dot == <<".">>
s_ts == <<"t", "s">>
s_lv == <<"l", "v">>
s_sm == <<"s", "m">>
s_light == <<"l", "i", "g", "h", "t">>
s_deep == <<"d", "e", "e", "p">>
s_v == <<"v">>
s_a == <<"a">>
s_b == <<"b">>
s_c == <<"c">>

\* x in s, for two strings: s[i..i+len(x)-1] = x for some i
IsSubstring(x, s) ==
    \E i \in 0..(Len(s) - Len(x)) : SubSeq(s, i + 1, i + Len(x)) = x

\* str.split("."), computed left to right
RECURSIVE SplitDot(_, _, _)
SplitDot(s, cur, acc) ==
    IF s = <<>> THEN Append(acc, StrV(cur))
    ELSE IF Head(s) = "."
         THEN SplitDot(Tail(s), <<>>, Append(acc, StrV(cur)))
         ELSE SplitDot(Tail(s), Append(cur, Head(s)), acc)

Split(s) == ListV(SplitDot(s, <<>>, <<>>))

\* Python's sequence index: 0-based, negative indices count from the end
SeqIndex(q, i) ==
    IF i >= 0 /\ i < Len(q) THEN Ok(q[i + 1])
    ELSE IF i < 0 /\ -i <= Len(q) THEN Ok(q[Len(q) + i + 1])
    ELSE Raise("IndexError")

\* data[key]
GetItem(data, key) ==
    CASE T(data) = "dict" ->
            IF T(key) = "str" /\ V(key) \in DOMAIN V(data)
            THEN Ok(V(data)[V(key)])
            ELSE IF T(key) \in {"list", "dict", "dict_keys"}
                 THEN Raise("TypeError")
                 ELSE Raise("KeyError")
      [] T(data) = "list" ->
            IF T(key) = "int" THEN SeqIndex(V(data), V(key))
            ELSE Raise("TypeError")
      [] T(data) = "str" ->
            IF T(key) = "int"
            THEN LET r == SeqIndex(V(data), V(key))
                 IN  IF r.exc = "none" THEN Ok(StrV(<<r.val>>)) ELSE r
            ELSE Raise("TypeError")
      [] OTHER -> Raise("TypeError")

\* x in container
Contains(x, container) ==
    CASE T(container) = "str" ->
            IF T(x) = "str" THEN Ok(IsSubstring(V(x), V(container)))
            ELSE Raise("TypeError")
      [] T(container) = "list" ->
            Ok(\E i \in 1..Len(V(container)) : V(container)[i] = x)
      [] T(container) = "dict" ->
            IF T(x) \in {"list", "dict", "dict_keys"} THEN Raise("TypeError")
            ELSE Ok(T(x) = "str" /\ V(x) \in DOMAIN V(container))
      [] T(container) = "dict_keys" ->
            IF T(x) \in {"list", "dict", "dict_keys"} THEN Raise("TypeError")
            ELSE Ok(T(x) = "str" /\ V(x) \in V(container))
      [] OTHER -> Raise("TypeError")

\* the items "for key in key_path" visits
Iterate(key_path) ==
    IF T(key_path) = "str"
    THEN [i \in 1..Len(V(key_path)) |-> StrV(<<V(key_path)[i]>>)]
    ELSE V(key_path)

\* ------------------------------------------------------------ get_nested_value

\* the loop of get_nested_value: [exc, val, applied], applied the positions
\* of the keys whose subscription succeeded.  Walk takes the key at i,
\* WalkOn goes on from the outcome r of data[key]
RECURSIVE Walk(_, _, _, _)
RECURSIVE WalkOn(_, _, _, _, _)
Walk(data, keys, i, applied) ==
    IF i > Len(keys) THEN [exc |-> "none", val |-> data, applied |-> applied]
    ELSE WalkOn(data, keys, i, applied, GetItem(data, keys[i]))

WalkOn(data, keys, i, applied, r) ==
    CASE r.exc = "none" -> Walk(r.val, keys, i + 1, Append(applied, i))
      [] r.exc \in {"KeyError", "TypeError"} -> Walk(data, keys, i + 1, applied)
      [] OTHER -> [exc |-> r.exc, val |-> NoneValue, applied |-> applied]

\* key_path after "if '.' in key_path: key_path = key_path.split('.')",
\* hasDot the outcome of the test
SplitIfDot(key_path, hasDot) ==
    IF hasDot.exc # "none" THEN Raise(hasDot.exc)
    ELSE IF ~hasDot.val THEN Ok(key_path)
    ELSE IF T(key_path) = "str" THEN Ok(Split(V(key_path)))
    ELSE Raise("AttributeError")

SplitKeyPath(key_path) == SplitIfDot(key_path, Contains(StrV(s_dot), key_path))

\* the loop over the keys of kp, the outcome of the split
WalkKeys(data, kp) ==
    IF kp.exc # "none"
    THEN [exc |-> kp.exc, val |-> NoneValue, applied |-> <<>>]
    ELSE Walk(data, Iterate(kp.val), 1, <<>>)

GetNestedWalk(data, key_path) == WalkKeys(data, SplitKeyPath(key_path))

\* result = data.keys() if isinstance(data, dict) else data
KeysOrValue(w) ==
    IF w.exc # "none" THEN Raise(w.exc)
    ELSE IF T(w.val) = "dict" THEN Ok(DictKeys(DOMAIN V(w.val)))
    ELSE Ok(w.val)

get_nested_value(data, key_path) == KeysOrValue(GetNestedWalk(data, key_path))

\* ------------------------------------------------------------ the resolver's inputs

d_leaf == DictV(s_c :> IntV(1))
d_mid == DictV((s_b :> DictV(s_c :> IntV(2))) @@ (s_c :> IntV(1)))

\* raw records: nested mappings with lists and scalar leaves
ResolveRecords ==
    { DictV(s_a :> d_leaf),
      DictV(s_a :> d_mid),
      DictV(s_a :> ListV(<<d_leaf, IntV(7)>>)),
      DictV(s_a :> StrV(<<"x", "y">>)),
      DictV((s_a :> IntV(5)) @@ (s_c :> IntV(3))),
      DictV(s_a :> DictV(s_b :> IntV(7))),
      DictV((s_c :> IntV(1)) @@ (s_b :> d_leaf)),
      DictV(<<>>) }

\* field paths: a dotted string, or a sequence of keys
ResolvePaths ==
    { StrV(<<"a", ".", "b", ".", "c">>),
      StrV(<<"a", ".", "c">>),
      StrV(<<"a", ".", "b">>),
      StrV(<<"a", ".", ".", "c">>),
      StrV(<<"b", "c">>),
      StrV(<<>>),
      ListV(<<StrV(s_a), StrV(s_b), StrV(s_c)>>),
      ListV(<<StrV(s_a), StrV(s_c)>>),
      ListV(<<StrV(s_a)>>),
      ListV(<<StrV(s_a), IntV(0), StrV(s_c)>>),
      ListV(<<StrV(s_a), IntV(1)>>),
      ListV(<<StrV(s_a), IntV(-1)>>),
      ListV(<<StrV(s_a), IntV(2)>>),
      ListV(<<StrV(s_dot), StrV(s_a)>>) }

ConfigIdle ==
    /\ config = NoneValue
    /\ start_date = 0
    /\ end_date = 0

SleepIdle ==
    /\ sleep_files = <<>>
    /\ file_idx = 0
    /\ sleep_data = <<>>
    /\ pulled = 0
    /\ pos = 0
    /\ spc = "idle"
    /\ sleep_last = [op |-> "none", entry |-> NoneValue, exc |-> "none",
                     record |-> <<>>]
    /\ sleep_emitted = 0

VitalsIdle ==
    /\ vitals_key = NoneValue
    /\ vitals_type = "none"
    /\ min_valid = 0
    /\ vitals_data = <<>>
    /\ vitals_pos = 0
    /\ extracted_count = 0
    /\ valid_count = 0
    /\ yielded = <<>>
    /\ log = <<>>
    /\ vpc = "idle"
    /\ vitals_files = <<>>
    /\ outer_items = <<>>
    /\ opc = "idle"
    /\ vf_idx = 0
    /\ inner_items = <<>>
    /\ ipc = "idle"
    /\ instant_has_datetime = FALSE

RegistryIdle ==
    /\ registry = <<>>
    /\ defs = <<>>

ResolveIdle ==
    /\ r_data = NoneValue
    /\ r_key_path = NoneValue
    /\ r_result = Raise("none")
    /\ r_applied = <<>>
    /\ rpc = "idle"

InitResolve ==
    /\ r_data \in ResolveRecords
    /\ r_key_path \in ResolvePaths
    /\ r_result = Raise("none")
    /\ r_applied = <<>>
    /\ rpc = "call"
    /\ ConfigIdle
    /\ SleepIdle
    /\ VitalsIdle
    /\ RegistryIdle

\* one call of get_nested_value(data, key_path) that returns
ResolveReturn ==
    /\ rpc = "call"
    /\ get_nested_value(r_data, r_key_path).exc = "none"
    /\ r_result' = get_nested_value(r_data, r_key_path)
    /\ r_applied' = GetNestedWalk(r_data, r_key_path).applied
    /\ rpc' = "returned"
    /\ UNCHANGED <<r_data, r_key_path, nonResolve>>

\* one call of get_nested_value(data, key_path) that an exception leaves
ResolveRaise ==
    /\ rpc = "call"
    /\ get_nested_value(r_data, r_key_path).exc # "none"
    /\ r_result' = get_nested_value(r_data, r_key_path)
    /\ r_applied' = GetNestedWalk(r_data, r_key_path).applied
    /\ rpc' = "raised"
    /\ UNCHANGED <<r_data, r_key_path, nonResolve>>

\* ------------------------------------------------------------ dates (time_helpers)

DigitValue(c) ==
    CASE c = "0" -> 0 [] c = "1" -> 1 [] c = "2" -> 2 [] c = "3" -> 3
      [] c = "4" -> 4 [] c = "5" -> 5 [] c = "6" -> 6 [] c = "7" -> 7
      [] c = "8" -> 8 [] c = "9" -> 9

\* the day a raw timestamp string names: its decimal value
RECURSIVE ParseDay(_, _)
ParseDay(s, acc) ==
    IF s = <<>> THEN acc ELSE ParseDay(Tail(s), acc * 10 + DigitValue(Head(s)))

\* the date of a raw timestamp (a string) or of a date value
DateOf(timestamp) ==
    IF T(timestamp) = "str" THEN ParseDay(V(timestamp), 0) ELSE V(timestamp)

\* is_valid_date(timestamp, start_date, end_date): inclusive at both ends
is_valid_date(timestamp, start, end) ==
    start <= DateOf(timestamp) /\ DateOf(timestamp) <= end

\* ------------------------------------------------------------ is_valid_sleep_entry

\* r in entry, r the outcome of get_nested_value(entry, field)
InEntry(entry, r) ==
    IF r.exc # "none" THEN Raise(r.exc) ELSE Contains(r.val, entry)

\* get_nested_value(entry, field) in entry
RequiredTest(entry, field) == InEntry(entry, get_nested_value(entry, field))

\* all(...) over the tests in order: it stops at the first that raises or
\* is false
AllOf(tests) ==
    LET stops == {i \in 1..Len(tests) :
                     tests[i].exc # "none" \/ ~tests[i].val}
        first == CHOOSE i \in stops : \A j \in stops : i <= j
    IN  IF stops = {} THEN Ok(TRUE)
        ELSE IF tests[first].exc # "none" THEN Raise(tests[first].exc)
        ELSE Ok(FALSE)

\* all(get_nested_value(entry, field) in entry for field in required_fields)
AllRequired(entry, fields) ==
    AllOf([i \in 1..Len(fields) |-> RequiredTest(entry, fields[i])])

\* return valid_date and light_exists
ValidAndLight(valid_date, light_exists) ==
    IF light_exists.exc # "none" THEN Raise(light_exists.exc)
    ELSE Ok(valid_date /\ light_exists.val)

\* light_exists = "light" in get_nested_value(entry, sleep_stages), stages
\* the outcome of the call
LightExists(valid_date, stages) ==
    IF stages.exc # "none" THEN Raise(stages.exc)
    ELSE ValidAndLight(valid_date, Contains(StrV(s_light), stages.val))

\* valid_date = is_valid_date(timestamp=entry[timestamp], ...), ts the
\* outcome of the subscription
ValidDate(entry, start, end, ts) ==
    IF ts.exc # "none" THEN Raise(ts.exc)
    ELSE LightExists(is_valid_date(ts.val, start, end),
                     get_nested_value(entry, config.sleep_stages))

\* the function after its first test, req the outcome of all(...)
AfterRequired(entry, start, end, req) ==
    IF req.exc # "none" THEN Raise(req.exc)
    ELSE IF ~req.val THEN Ok(FALSE)
    ELSE ValidDate(entry, start, end, GetItem(entry, StrV(config.timestamp)))

is_valid_sleep_entry(entry, start, end) ==
    AfterRequired(entry, start, end,
                  AllRequired(entry, config.required_fields))

\* {sleep_key: transform_func(entry) for ... in sleep_transformations}: each
\* configured transform reads its field of the one entry
SleepEntryOf(entry) ==
    [i \in 1..Len(config.sleep_transformations) |->
        [key |-> config.sleep_transformations[i].key,
         value |-> get_nested_value(entry,
                                    config.sleep_transformations[i].field).val]]

\* ------------------------------------------------------------ configuration

p_ts == ListV(<<StrV(s_ts)>>)
p_stages == StrV(s_lv \o s_dot \o s_sm)

p_spo2 == ListV(<<StrV(s_v)>>)
p_bpm == StrV(s_v \o s_dot \o s_b)

BaseConfig ==
    [required_fields |-> <<>>,
     timestamp |-> s_ts,
     spo2_key |-> p_spo2,
     bpm_key |-> p_bpm,
     timezone |-> 0,
     use_seconds |-> TRUE,
     sleep_stages |-> p_stages,
     sleep_transformations |->
        <<[key |-> "start", field |-> p_ts],
          [key |-> "stages", field |-> p_stages]>>]

\* the required-field lists of the model: the timestamp as a key sequence,
\* the timestamp and the stage subtree as strings, and none
SleepConfigs ==
    { [BaseConfig EXCEPT !.required_fields = <<p_ts>>],
      [BaseConfig EXCEPT !.required_fields = <<StrV(s_ts), p_stages>>],
      BaseConfig }

DateWindows == {<<2, 2>>, <<1, 2>>}

\* ------------------------------------------------------------ sleep records

d_stages_full == DictV((s_light :> IntV(1)) @@ (s_deep :> IntV(2)))
d_stages_nolight == DictV(s_deep :> IntV(2))

b_full == (s_lv :> DictV(s_sm :> d_stages_full))
b_string == (s_lv :> StrV(s_light))

\* the stage subtree: complete, without "light", a string in its parent's
\* place, absent with "light" beside the timestamp, absent with "light" in
\* its parent
SleepBodies ==
    { b_full,
      (s_lv :> DictV(s_sm :> d_stages_nolight)),
      b_string,
      (s_light :> IntV(1)),
      (s_lv :> DictV(s_light :> IntV(1))) }

SleepDays == {<<"1">>, <<"2">>, <<"3">>}

\* a complete record of each day; each body on day 2; day 2 with one more
\* top-level key that spells the timestamp's value; a record without its
\* timestamp
SleepEntries ==
    { DictV((s_ts :> StrV(d)) @@ b_full) : d \in SleepDays }
    \cup { DictV((s_ts :> StrV(<<"2">>)) @@ b) : b \in SleepBodies }
    \cup { DictV((s_ts :> StrV(<<"2">>)) @@ (<<"2">> :> IntV(0)) @@ b) :
               b \in {b_full, b_string} }
    \cup { DictV(b_full) }

MaxFiles == 2
MaxFileRecords == 2

SeqsUpTo(S, n) == UNION { [1..k -> S] : k \in 0..n }

\* ------------------------------------------------------------ collect_sleep_data

NoStep == [op |-> "none", entry |-> NoneValue, exc |-> "none", record |-> <<>>]

InitSleep ==
    /\ config \in SleepConfigs
    /\ \E w \in DateWindows : start_date = w[1] /\ end_date = w[2]
    /\ sleep_files \in {[i \in 1..n |-> i] : n \in 1..MaxFiles}
    /\ file_idx = 0
    /\ sleep_data = <<>>
    /\ pulled = 0
    /\ pos = 0
    /\ spc = "files"
    /\ sleep_last = NoStep
    /\ sleep_emitted = 0
    /\ ResolveIdle
    /\ VitalsIdle
    /\ RegistryIdle

\* for file in sleep_files: sleep_data = list(read_file(file)): the list
\* takes every record the reader has
CollectSleepRead ==
    /\ spc = "files"
    /\ file_idx < Len(sleep_files)
    /\ \E content \in SeqsUpTo(SleepEntries, MaxFileRecords) :
          /\ sleep_data' = content
          /\ pulled' = Len(content)
    /\ file_idx' = file_idx + 1
    /\ pos' = 0
    /\ spc' = "entries"
    /\ sleep_last' = [NoStep EXCEPT !.op = "read"]
    /\ UNCHANGED <<sleep_files, sleep_emitted, cvars, nonSleep>>

\* the list of files is exhausted
CollectSleepDone ==
    /\ spc = "files"
    /\ file_idx = Len(sleep_files)
    /\ spc' = "done"
    /\ sleep_last' = [NoStep EXCEPT !.op = "done"]
    /\ UNCHANGED <<sleep_files, file_idx, sleep_data, pulled, pos,
                   sleep_emitted, cvars, nonSleep>>

\* extract_sleep_data: the entry is not valid: continue
ExtractSleepSkip ==
    /\ spc = "entries"
    /\ pos < Len(sleep_data)
    /\ LET entry == sleep_data[pos + 1]
           valid == is_valid_sleep_entry(entry, start_date, end_date)
       IN  /\ valid.exc = "none"
           /\ ~valid.val
           /\ sleep_last' = [NoStep EXCEPT !.op = "skip", !.entry = entry]
    /\ pos' = pos + 1
    /\ UNCHANGED <<sleep_files, file_idx, sleep_data, pulled, spc,
                   sleep_emitted, cvars, nonSleep>>

\* extract_sleep_data: the entry is valid: yield its SleepEntry
ExtractSleepYield ==
    /\ spc = "entries"
    /\ pos < Len(sleep_data)
    /\ LET entry == sleep_data[pos + 1]
           valid == is_valid_sleep_entry(entry, start_date, end_date)
       IN  /\ valid.exc = "none"
           /\ valid.val
           /\ sleep_last' = [NoStep EXCEPT !.op = "yield", !.entry = entry,
                                           !.record = SleepEntryOf(entry)]
    /\ pos' = pos + 1
    /\ sleep_emitted' = sleep_emitted + 1
    /\ UNCHANGED <<sleep_files, file_idx, sleep_data, pulled, spc,
                   cvars, nonSleep>>

\* extract_sleep_data: is_valid_sleep_entry raises, and the exception leaves
\* both generators
ExtractSleepRaise ==
    /\ spc = "entries"
    /\ pos < Len(sleep_data)
    /\ LET entry == sleep_data[pos + 1]
           valid == is_valid_sleep_entry(entry, start_date, end_date)
       IN  /\ valid.exc # "none"
           /\ sleep_last' = [NoStep EXCEPT !.op = "raise", !.entry = entry,
                                           !.exc = valid.exc]
    /\ pos' = pos + 1
    /\ spc' = "raised"
    /\ UNCHANGED <<sleep_files, file_idx, sleep_data, pulled,
                   sleep_emitted, cvars, nonSleep>>

\* extract_sleep_data: the list is exhausted, the next file follows
ExtractSleepEnd ==
    /\ spc = "entries"
    /\ pos = Len(sleep_data)
    /\ spc' = "files"
    /\ sleep_last' = [NoStep EXCEPT !.op = "end"]
    /\ UNCHANGED <<sleep_files, file_idx, sleep_data, pulled, pos,
                   sleep_emitted, cvars, nonSleep>>

NextSleep ==
    \/ CollectSleepRead
    \/ CollectSleepDone
    \/ ExtractSleepSkip
    \/ ExtractSleepYield
    \/ ExtractSleepRaise
    \/ ExtractSleepEnd

\* ------------------------------------------------------------ instants (time_helpers)

MillisPerSecond == 1000
SecondsPerDay == 86400

\* convert_timestamp(raw, timezone, use_seconds): the instant, in seconds at
\* the timezone's offset, of a raw timestamp in seconds or in milliseconds
convert_timestamp(raw, timezone, use_seconds) ==
    [datetime |->
        (IF use_seconds THEN V(raw) ELSE V(raw) \div MillisPerSecond) + timezone]

\* instant.date()
DateOfInstant(instant) == [date |-> V(instant) \div SecondsPerDay]

\* ------------------------------------------------------------ extract_vitals_data

SPO2_MIN_VALID == 75
BPM_MIN_VALID == 50
DebugEvery == 15

\* value >= min_valid, for an int min_valid
PyGe(value, n) ==
    IF T(value) = "int" THEN Ok(V(value) >= n) ELSE Raise("TypeError")

NoPair == [pair |-> <<>>]

\* if value >= min_valid, ge the outcome of the comparison
StepCompared(timestamp, value, ge) ==
    IF ge.exc # "none"
    THEN [exc |-> ge.exc, counted |-> TRUE, valid |-> FALSE, pair |-> NoPair]
    ELSE [exc |-> "none", counted |-> TRUE, valid |-> ge.val,
          pair |-> [pair |-> <<timestamp, value.val>>]]

\* value = get_nested_value(entry, key); extracted_count += 1
StepResolved(timestamp, value) ==
    IF value.exc # "none"
    THEN [exc |-> value.exc, counted |-> FALSE, valid |-> FALSE,
          pair |-> NoPair]
    ELSE StepCompared(timestamp, value, PyGe(value.val, min_valid))

\* timestamp = convert_timestamp(entry[timestamp], ...), ts the outcome of
\* the subscription
StepTimestamp(entry, ts) ==
    IF ts.exc # "none"
    THEN [exc |-> ts.exc, counted |-> FALSE, valid |-> FALSE, pair |-> NoPair]
    ELSE StepResolved(convert_timestamp(ts.val, config.timezone,
                                        config.use_seconds),
                      get_nested_value(entry, vitals_key))

\* the body of the loop for one entry: the exception that leaves it if any,
\* whether extracted_count was incremented before, whether the value passes,
\* and the pair (timestamp, value)
VitalsStep(entry) ==
    StepTimestamp(entry, GetItem(entry, StrV(config.timestamp)))

\* the entry's value is at least min_valid: count it twice, log every
\* DebugEvery-th, yield the pair
VitalsYieldStep ==
    /\ vpc = "run"
    /\ vitals_pos < Len(vitals_data)
    /\ LET st == VitalsStep(vitals_data[vitals_pos + 1])
       IN  /\ st.exc = "none"
           /\ st.valid
           /\ log' = IF (valid_count + 1) % DebugEvery = 0
                     THEN Append(log, [debug |-> <<st.pair.pair[1], vitals_type,
                                                   st.pair.pair[2]>>])
                     ELSE log
           /\ yielded' = Append(yielded, st.pair)
    /\ extracted_count' = extracted_count + 1
    /\ valid_count' = valid_count + 1
    /\ vitals_pos' = vitals_pos + 1
    /\ UNCHANGED <<vitals_data, vpc>>

\* a variant of the step below that passes over the entry without counting it
VitalsSkipStep_uncounted ==
    /\ vpc = "run"
    /\ vitals_pos < Len(vitals_data)
    /\ LET st == VitalsStep(vitals_data[vitals_pos + 1])
       IN  /\ st.exc = "none"
           /\ ~st.valid
    /\ vitals_pos' = vitals_pos + 1
    /\ UNCHANGED <<vitals_data, extracted_count, valid_count, yielded, log, vpc>>

\* the entry's value is below min_valid: count it once
VitalsSkipStep ==
    /\ vpc = "run"
    /\ vitals_pos < Len(vitals_data)
    /\ LET st == VitalsStep(vitals_data[vitals_pos + 1])
       IN  /\ st.exc = "none"
           /\ ~st.valid
    /\ extracted_count' = extracted_count + 1
    /\ vitals_pos' = vitals_pos + 1
    /\ UNCHANGED <<vitals_data, valid_count, yielded, log, vpc>>

\* an exception leaves the generator
VitalsRaiseStep ==
    /\ vpc = "run"
    /\ vitals_pos < Len(vitals_data)
    /\ LET st == VitalsStep(vitals_data[vitals_pos + 1])
       IN  /\ st.exc # "none"
           /\ extracted_count' =
                 IF st.counted THEN extracted_count + 1 ELSE extracted_count
    /\ vitals_pos' = vitals_pos + 1
    /\ vpc' = "raised"
    /\ UNCHANGED <<vitals_data, valid_count, yielded, log>>

\* the input is exhausted: log the summary
VitalsExhaustStep ==
    /\ vpc = "run"
    /\ vitals_pos = Len(vitals_data)
    /\ log' = Append(log, [info |-> <<valid_count, vitals_type,
                                      extracted_count>>])
    /\ vpc' = "done"
    /\ UNCHANGED <<vitals_data, vitals_pos, extracted_count, valid_count,
                   yielded>>

\* ------------------------------------------------------------ vitals records

\* extract_data's two calls of collect_vitals_data
VitalsKinds ==
    { [vitals_key |-> p_spo2, vitals_type |-> "SpO2",
       min_valid |-> SPO2_MIN_VALID],
      [vitals_key |-> p_bpm, vitals_type |-> "Heart rate",
       min_valid |-> BPM_MIN_VALID] }

VitalsConfigs == { [BaseConfig EXCEPT !.use_seconds = u] : u \in BOOLEAN }

\* a raw timestamp of the given day, in the configuration's unit
RawOf(day, cfg) ==
    IntV((day * SecondsPerDay + 30)
         * (IF cfg.use_seconds THEN 1 ELSE MillisPerSecond))

\* an entry with the value where the kind's key looks for it
VitalsEntry(kind, fields, value) ==
    DictV(fields @@
          (IF kind.vitals_key = p_spo2 THEN (s_v :> value)
           ELSE (s_v :> DictV(s_b :> value))))

VitalsDays == {1, 2}

WellFormedVitals(kind, cfg) ==
    { VitalsEntry(kind, (s_ts :> RawOf(d, cfg)), IntV(kind.min_valid + k)) :
          d \in VitalsDays, k \in {-1, 0, 1} }

\* without the value, with a string for a value, without the timestamp
MalformedVitals(kind, cfg) ==
    { DictV((s_ts :> RawOf(1, cfg)) @@ (s_a :> IntV(kind.min_valid))),
      VitalsEntry(kind, (s_ts :> RawOf(1, cfg)), StrV(<<"9", "9">>)),
      VitalsEntry(kind, <<>>, IntV(kind.min_valid)) }

VitalsEntries(kind, cfg) ==
    WellFormedVitals(kind, cfg) \cup MalformedVitals(kind, cfg)

MaxRecords == 3

CollectIdle ==
    /\ vitals_files = <<>>
    /\ outer_items = <<>>
    /\ opc = "idle"
    /\ vf_idx = 0
    /\ inner_items = <<>>
    /\ ipc = "idle"
    /\ instant_has_datetime = FALSE

InitExtract ==
    /\ config \in VitalsConfigs
    /\ start_date = 0
    /\ end_date = 0
    /\ \E kind \in VitalsKinds :
          /\ vitals_key = kind.vitals_key
          /\ vitals_type = kind.vitals_type
          /\ min_valid = kind.min_valid
          /\ vitals_data \in SeqsUpTo(VitalsEntries(kind, config), MaxRecords)
    /\ vitals_pos = 0
    /\ extracted_count = 0
    /\ valid_count = 0
    /\ yielded = <<>>
    /\ log = <<>>
    /\ vpc = "run"
    /\ CollectIdle
    /\ ResolveIdle
    /\ SleepIdle
    /\ RegistryIdle

ExtractYield == VitalsYieldStep /\ UNCHANGED <<cvars, avars, gvars, nonVitals>>
ExtractSkip == VitalsSkipStep /\ UNCHANGED <<cvars, avars, gvars, nonVitals>>
ExtractRaise == VitalsRaiseStep /\ UNCHANGED <<cvars, avars, gvars, nonVitals>>
ExtractExhaust ==
    VitalsExhaustStep /\ UNCHANGED <<cvars, avars, gvars, nonVitals>>

NextExtract == ExtractYield \/ ExtractSkip \/ ExtractRaise \/ ExtractExhaust

\* ------------------------------------------------------------ collect_vitals_data

\* the entries of the collected files: below and at the threshold, inside
\* and outside the window, and one without its value
CollectEntries(kind, cfg) ==
    { VitalsEntry(kind, (s_ts :> RawOf(d, cfg)), IntV(kind.min_valid + k)) :
          d \in VitalsDays \cup {3}, k \in {-1, 0} }
    \cup { DictV((s_ts :> RawOf(1, cfg)) @@ (s_a :> IntV(kind.min_valid))) }

InitCollect ==
    /\ config \in VitalsConfigs
    /\ \E w \in DateWindows : start_date = w[1] /\ end_date = w[2]
    /\ \E kind \in VitalsKinds :
          /\ vitals_key = kind.vitals_key
          /\ vitals_type = kind.vitals_type
          /\ min_valid = kind.min_valid
    /\ vitals_files \in {[i \in 1..n |-> i] : n \in 0..MaxFiles}
    /\ instant_has_datetime \in BOOLEAN
    /\ outer_items = <<>>
    /\ opc = "start"
    /\ vf_idx = 0
    /\ inner_items = <<>>
    /\ ipc = "unborn"
    /\ vitals_data = <<>>
    /\ vitals_pos = 0
    /\ extracted_count = 0
    /\ valid_count = 0
    /\ yielded = <<>>
    /\ log = <<>>
    /\ vpc = "idle"
    /\ ResolveIdle
    /\ SleepIdle
    /\ RegistryIdle

\* the first next() of collect_vitals_data's generator: "yield (...)" hands
\* over the generator expression itself, one item
CollectYield ==
    /\ opc = "start"
    /\ outer_items' = Append(outer_items, [generator |-> "genexpr"])
    /\ opc' = "suspended"
    /\ ipc' = "files"
    /\ UNCHANGED <<vitals_files, vf_idx, inner_items, instant_has_datetime,
                   cvars, avars, evars, nonVitals>>

\* the second next(): the function body ends after its one yield
CollectReturn ==
    /\ opc = "suspended"
    /\ opc' = "done"
    /\ UNCHANGED <<vitals_files, outer_items, vf_idx, inner_items, ipc,
                   instant_has_datetime, cvars, avars, evars, nonVitals>>

\* the generator expression, for file in vitals_files: a new
\* extract_vitals_data over read_file(file)
GenexprNextFile ==
    /\ ipc = "files"
    /\ vf_idx < Len(vitals_files)
    /\ \E kind \in VitalsKinds :
          /\ kind.vitals_type = vitals_type
          /\ vitals_data' \in
                SeqsUpTo(CollectEntries(kind, config), MaxFileRecords)
    /\ vitals_pos' = 0
    /\ extracted_count' = 0
    /\ valid_count' = 0
    /\ yielded' = <<>>
    /\ vpc' = "run"
    /\ vf_idx' = vf_idx + 1
    /\ ipc' = "entries"
    /\ UNCHANGED <<log, vitals_files, outer_items, opc, inner_items,
                   instant_has_datetime, cvars, avars, nonVitals>>

\* the generator expression: no file is left
GenexprDone ==
    /\ ipc = "files"
    /\ vf_idx = Len(vitals_files)
    /\ ipc' = "done"
    /\ UNCHANGED <<vitals_files, outer_items, opc, vf_idx, inner_items,
                   instant_has_datetime, cvars, avars, evars, nonVitals>>

\* the generator expression takes a pair of extract_vitals_data and tests
\* is_valid_date(timestamp.datetime.date(), start_date, end_date)
GenexprPair ==
    /\ ipc = "entries"
    /\ VitalsYieldStep
    /\ LET timestamp == yielded'[Len(yielded')].pair[1]
       IN  IF ~instant_has_datetime
           THEN /\ ipc' = "raised"
                /\ inner_items' = inner_items
           ELSE /\ ipc' = ipc
                /\ inner_items' =
                      IF is_valid_date(DateOfInstant(timestamp),
                                       start_date, end_date)
                      THEN Append(inner_items, yielded'[Len(yielded')])
                      ELSE inner_items
    /\ UNCHANGED <<vitals_files, outer_items, opc, vf_idx,
                   instant_has_datetime, cvars, avars, nonVitals>>

\* extract_vitals_data passes over an entry below the threshold
GenexprSkip ==
    /\ ipc = "entries"
    /\ VitalsSkipStep
    /\ UNCHANGED <<gvars, cvars, avars, nonVitals>>

\* an exception of extract_vitals_data leaves the generator expression
GenexprRaise ==
    /\ ipc = "entries"
    /\ VitalsRaiseStep
    /\ ipc' = "raised"
    /\ UNCHANGED <<vitals_files, outer_items, opc, vf_idx, inner_items,
                   instant_has_datetime, cvars, avars, nonVitals>>

\* extract_vitals_data ends with its summary, the next file follows
GenexprFileEnd ==
    /\ ipc = "entries"
    /\ VitalsExhaustStep
    /\ ipc' = "files"
    /\ UNCHANGED <<vitals_files, outer_items, opc, vf_idx, inner_items,
                   instant_has_datetime, cvars, avars, nonVitals>>

NextCollect ==
    \/ CollectYield
    \/ CollectReturn
    \/ GenexprNextFile
    \/ GenexprDone
    \/ GenexprPair
    \/ GenexprSkip
    \/ GenexprRaise
    \/ GenexprFileEnd

\* ------------------------------------------------------------ DataHandler registry

\* cls.__module__.split(".")[-2]
PackageOf(module) == SeqIndex(V(Split(module)), -2)

\* a variant of the registration below without the duplicate test: the last
\* class of a package replaces the one before
RegisterPackage_overwrite(reg, cls, package) ==
    IF package.exc # "none"
    THEN [exc |-> package.exc, package |-> <<>>, registry |-> reg]
    ELSE [exc |-> "none", package |-> V(package.val),
          registry |-> [x \in DOMAIN reg \cup {V(package.val)} |->
                           IF x = V(package.val) THEN cls ELSE reg[x]]]

\* the rest of __init_subclass__, package the outcome of the subscription:
\* the exception if any, the package, the registry afterwards
RegisterPackage(reg, cls, package) ==
    IF package.exc # "none"
    THEN [exc |-> package.exc, package |-> <<>>, registry |-> reg]
    ELSE IF V(package.val) \in DOMAIN reg
    THEN [exc |-> "ValueError", package |-> V(package.val), registry |-> reg]
    ELSE [exc |-> "none", package |-> V(package.val),
          registry |-> [x \in DOMAIN reg \cup {V(package.val)} |->
                           IF x = V(package.val) THEN cls ELSE reg[x]]]

\* DataHandler.__init_subclass__ for the class cls of the given module
init_subclass(reg, cls, module) ==
    RegisterPackage(reg, cls, PackageOf(module))

\* the modules that define handlers: two of package t, one of u, one of a
\* top-level package t, one outside any package
HandlerModules ==
    { <<"p", ".", "t", ".", "h">>,
      <<"p", ".", "t", ".", "g">>,
      <<"p", ".", "u", ".", "h">>,
      <<"t", ".", "h">>,
      <<"h">> }

MaxDefs == 3

InitRegistry ==
    /\ registry = <<>>
    /\ defs = <<>>
    /\ ResolveIdle
    /\ ConfigIdle
    /\ SleepIdle
    /\ VitalsIdle

\* a class statement "class X(DataHandler)" in module: the Len(defs)+1-th class
DefineHandler ==
    /\ Len(defs) < MaxDefs
    /\ \E module \in HandlerModules :
          LET out == init_subclass(registry, Len(defs) + 1, module)
          IN  /\ registry' = out.registry
              /\ defs' = Append(defs, [cls |-> Len(defs) + 1,
                                       module |-> module,
                                       exc |-> out.exc,
                                       package |-> out.package,
                                       registry |-> out.registry])
    /\ UNCHANGED nonRegistry

NextRegistry == DefineHandler

vars == <<rvars, cvars, svars, avars, evars, gvars, hvars>>

NextResolve == ResolveReturn \/ ResolveRaise

SpecResolve == InitResolve /\ [][NextResolve]_vars

SpecSleep == InitSleep /\ [][NextSleep]_vars

SpecExtract == InitExtract /\ [][NextExtract]_vars

SpecCollect == InitCollect /\ [][NextCollect]_vars

SpecRegistry == InitRegistry /\ [][NextRegistry]_vars

\* ------------------------------------------------------------ the resolver's contract

\* C3: for every record and every field path, get_nested_value returns a
\* result: no call is left by an exception.
C3_NeverRaises == rpc # "raised"

\* a call that an index past the end of a list leaves by IndexError
C3_IndexPastEnd ==
    /\ rpc = "raised"
    /\ r_result.exc = "IndexError"
    /\ T(r_key_path) = "list"

\* the walk that stops at the first key it cannot apply
RECURSIVE AbortingWalk(_, _, _)
AbortingWalk(data, keys, i) ==
    IF i > Len(keys) THEN [val |-> data, applied |-> i - 1]
    ELSE IF GetItem(data, keys[i]).exc # "none"
    THEN [val |-> data, applied |-> i - 1]
    ELSE AbortingWalk(GetItem(data, keys[i]).val, keys, i + 1)

AbortingResult(data, key_path) ==
    AbortingWalk(data, Iterate(SplitKeyPath(key_path).val), 1)

\* C9: a call that returns has applied the keys of the path up to its first
\* miss and none after it, and its result is derived from the value reached
\* before that miss.
C9_AbortsAtFirstMiss ==
    rpc = "returned" =>
        /\ r_applied = [i \in 1..AbortingResult(r_data, r_key_path).applied |-> i]
        /\ r_result = KeysOrValue([exc |-> "none",
                          val |-> AbortingResult(r_data, r_key_path).val])

\* the path a.b.c on a record whose mapping under a lacks b and has c: the
\* call has applied a and c
C9_AppliedAfterMiss ==
    /\ rpc = "returned"
    /\ r_key_path = StrV(<<"a", ".", "b", ".", "c">>)
    /\ r_data = DictV(s_a :> d_leaf)
    /\ r_applied = <<1, 3>>
    /\ r_result = Ok(IntV(1))

\* ------------------------------------------------------------ the validator's contract

\* the keys a field path names: the parts of a string between its dots, the
\* elements of a sequence
PathKeys(path) ==
    IF T(path) = "str" THEN V(Split(V(path))) ELSE V(path)

\* the value at the end of the path, every key of which must be present
RECURSIVE ValueAt(_, _, _)
ValueAt(data, keys, i) ==
    IF i > Len(keys) THEN Ok(data)
    ELSE IF T(data) = "dict" /\ V(keys[i]) \in DOMAIN V(data)
    THEN ValueAt(V(data)[V(keys[i])], keys, i + 1)
    ELSE Raise("absent")

PathPresent(entry, path) == ValueAt(entry, PathKeys(path), 1).exc = "none"

TimestampPresent(entry) == config.timestamp \in DOMAIN V(entry)

\* "light" is a key of the mapping at the configured sleep-stage path
LightUnderStages(entry) ==
    LET stages == ValueAt(entry, PathKeys(config.sleep_stages), 1)
    IN  /\ stages.exc = "none"
        /\ T(stages.val) = "dict"
        /\ s_light \in DOMAIN V(stages.val)

\* the three conditions of a valid sleep record
ThreeConditions(entry) ==
    /\ \A i \in 1..Len(config.required_fields) :
          PathPresent(entry, config.required_fields[i])
    /\ TimestampPresent(entry)
    /\ is_valid_date(V(entry)[config.timestamp], start_date, end_date)
    /\ LightUnderStages(entry)

\* the entry extract_sleep_data has just decided on
Decided == sleep_last.op \in {"skip", "yield", "raise"}

RequiresTimestamp ==
    \E i \in 1..Len(config.required_fields) :
        PathKeys(config.required_fields[i]) = <<StrV(config.timestamp)>>

\* C1: is_valid_sleep_entry returns true for an entry if and only if the
\* entry has every required field, a timestamp whose date is in the window,
\* and "light" among the keys of its sleep-stage subtree.
C1_TrueIffThreeConditions ==
    sleep_last.op \in {"skip", "yield"} =>
        ((sleep_last.op = "yield") <=> ThreeConditions(sleep_last.entry))

\* an entry that meets the three conditions and is rejected
C1_RejectedThoughValid ==
    /\ sleep_last.op = "skip"
    /\ config.required_fields # <<>>
    /\ ThreeConditions(sleep_last.entry)

\* C2: an entry without the required timestamp is skipped: nothing is emitted
\* for it and no exception is raised.
C2_MissingTimestampSkipped ==
    (Decided /\ RequiresTimestamp /\ ~TimestampPresent(sleep_last.entry)) =>
        sleep_last.op = "skip"

\* an entry without its timestamp on which the validator raises
C2_MissingTimestampRaises ==
    /\ sleep_last.op = "raise"
    /\ RequiresTimestamp
    /\ ~TimestampPresent(sleep_last.entry)
    /\ spc = "raised"

\* C4: a SleepEntry is emitted only for an entry with "light" under its
\* sleep-stage subtree.
C4_NoLightNeverEmitted ==
    sleep_last.op = "yield" => LightUnderStages(sleep_last.entry)

\* an emitted entry whose sleep-stage path stops at a string
C4_EmittedWithoutLight ==
    /\ sleep_last.op = "yield"
    /\ ~LightUnderStages(sleep_last.entry)
    /\ s_lv \in DOMAIN V(sleep_last.entry)
    /\ T(V(sleep_last.entry)[s_lv]) = "str"

\* C10: when a SleepEntry is emitted, the records pulled from the file's
\* reader are those up to the one it comes from, and no more.
C10_PullsOnlyUpToEmitted ==
    sleep_last.op = "yield" => pulled = pos

\* the first entry of a file is emitted when the file's second is pulled
C10_PulledAhead ==
    /\ sleep_last.op = "yield"
    /\ pos = 1
    /\ pulled = 2

\* ------------------------------------------------------------ the vitals contracts

\* the entry's resolved value is a number at or above min_valid
AtOrAbove(entry) ==
    LET value == get_nested_value(entry, vitals_key)
    IN  /\ value.exc = "none"
        /\ T(value.val) = "int"
        /\ V(value.val) >= min_valid

ValueOf(entry) == get_nested_value(entry, vitals_key).val

\* C6: when extract_vitals_data has ended, it has emitted one pair for each
\* entry of its input with a value at or above min_valid, in input order, and
\* no other pair.
C6_EmitsExactlyAtOrAbove ==
    vpc \in {"done", "raised"} =>
        /\ Len(yielded) = Len(SelectSeq(vitals_data, AtOrAbove))
        /\ \A i \in 1..Len(yielded) :
              yielded[i].pair[2] = ValueOf(SelectSeq(vitals_data, AtOrAbove)[i])

\* the generator has raised on an entry, and an entry at or above min_valid
\* is not emitted
C6_LostAtOrAbove ==
    /\ vpc = "raised"
    /\ Len(yielded) < Len(SelectSeq(vitals_data, AtOrAbove))

Summaries == SelectSeq(log, LAMBDA l : "info" \in DOMAIN l)

\* C8: valid_count never exceeds extracted_count; they are equal exactly when
\* every entry counted so far has a value at or above min_valid; once the
\* input is exhausted one summary is logged, of the number of emitted pairs
\* over the number of input entries, and none before.
C8_CountersAndSummary ==
    /\ valid_count <= extracted_count
    /\ valid_count = Len(yielded)
    /\ extracted_count <= Len(vitals_data)
    /\ (valid_count = extracted_count) <=>
          (\A i \in 1..extracted_count : AtOrAbove(vitals_data[i]))
    /\ vpc = "done" =>
          /\ extracted_count = Len(vitals_data)
          /\ Summaries = <<[info |-> <<Len(yielded), vitals_type,
                                      Len(vitals_data)>>]>>
    /\ vpc # "done" => Summaries = <<>>

\* an exhausted input of which some entries passed and some did not
C8_Witness ==
    /\ vpc = "done"
    /\ 0 < valid_count
    /\ valid_count < extracted_count
    /\ Len(Summaries) = 1

\* C5: every item of the stream of collect_vitals_data is a pair (instant,
\* value), and the stream taken to its end holds the pairs of
\* extract_vitals_data whose date is in the window, in order.
C5_StreamOfPairs ==
    /\ \A i \in 1..Len(outer_items) : "pair" \in DOMAIN outer_items[i]
    /\ (opc = "done" /\ ipc = "done") => outer_items = inner_items

\* the stream has ended with one item, the generator expression
C5_OneGenerator ==
    /\ opc = "done"
    /\ outer_items = <<[generator |-> "genexpr"]>>
    /\ inner_items # <<>>

\* ------------------------------------------------------------ the registry's contract

Derivable(i) == defs[i].exc # "IndexError"

Earlier(i) == {j \in 1..(i - 1) : Derivable(j) /\ defs[j].package = defs[i].package}

RegistryBefore(i) == IF i = 1 THEN <<>> ELSE defs[i - 1].registry

\* C7: a class defined for a package that the registry already has raises
\* ValueError in its definition and leaves the registry as it was; any other
\* class of a package is added; the registry maps each package to the first
\* class defined for it.
C7_FirstDefinitionWins ==
    /\ \A i \in 1..Len(defs) :
          /\ Derivable(i) =>
                ((defs[i].exc = "ValueError") <=> (Earlier(i) # {}))
          /\ defs[i].exc # "none" => defs[i].registry = RegistryBefore(i)
          /\ defs[i].exc = "none" =>
                /\ defs[i].package \notin DOMAIN RegistryBefore(i)
                /\ defs[i].registry[defs[i].package] = defs[i].cls
    /\ DOMAIN registry = {defs[i].package : i \in {j \in 1..Len(defs) : Derivable(j)}}
    /\ \A i \in 1..Len(defs) :
          (Derivable(i) /\ Earlier(i) = {}) => registry[defs[i].package] = defs[i].cls

\* a second class of a package has been defined, and refused
C7_Witness ==
    \E i \in 1..Len(defs) :
        /\ defs[i].exc = "ValueError"
        /\ Earlier(i) # {}
        /\ registry[defs[i].package] # defs[i].cls

====
